---- MODULE Spec2Model ----
(***************************************************************************)
(* VeriDoc AI Analyst API (src/main.py): the ingestion handler             *)
(* upload_whitepaper, the answering handler ask_question, the bearer-token *)
(* dependency oauth2_scheme, and the external capabilities they call       *)
(* (temporary files, PyPDFLoader, the text splitter, the embedding model,  *)
(* the Pinecone index, the chat model).                                    *)
(***************************************************************************)
EXTENDS Integers, Sequences, FiniteSets, TLC

(***************************************************************************)
(* hashlib.sha256(content).hexdigest() (src/main.py:144), FIPS 180-4.      *)
(* A 32-bit word is a pair <<hi, lo>> of 16-bit halves, so that no         *)
(* intermediate value leaves the 32-bit integers of TLC.  The word         *)
(* operations are functions: a function is applied to values, so that each *)
(* intermediate word is computed once.                                     *)
(***************************************************************************)
Half == 0..65535

Word == Half \X Half

Xor16[a \in Half, b \in Half] ==
  IF a = 0 THEN b
  ELSE IF b = 0 THEN a
  ELSE ((a + b) % 2) + 2 * Xor16[a \div 2, b \div 2]

And16[a \in Half, b \in Half] ==
  IF a = 0 \/ b = 0 THEN 0
  ELSE ((a % 2) * (b % 2)) + 2 * And16[a \div 2, b \div 2]

Pow2[n \in 0..16] == IF n = 0 THEN 1 ELSE 2 * Pow2[n - 1]

WXor[x \in Word, y \in Word] == <<Xor16[x[1], y[1]], Xor16[x[2], y[2]]>>

WAnd[x \in Word, y \in Word] == <<And16[x[1], y[1]], And16[x[2], y[2]]>>

WNot[x \in Word] == <<65535 - x[1], 65535 - x[2]>>

\* addition modulo 2^32
WAdd[x \in Word, y \in Word] ==
  <<(x[1] + y[1] + ((x[2] + y[2]) \div 65536)) % 65536, (x[2] + y[2]) % 65536>>

\* x >> n, 0 <= n < 32
Shr[x \in Word, n \in 0..31] ==
  IF n >= 16 THEN <<0, x[1] \div Pow2[n - 16]>>
  ELSE <<x[1] \div Pow2[n],
         (x[2] \div Pow2[n]) + (x[1] % Pow2[n]) * Pow2[16 - n]>>

\* x rotated right by n, 0 <= n < 32
Rotr[x \in Word, n \in 0..31] ==
  IF n >= 16
  THEN <<(x[2] \div Pow2[n - 16]) + (x[1] % Pow2[n - 16]) * Pow2[32 - n],
         (x[1] \div Pow2[n - 16]) + (x[2] % Pow2[n - 16]) * Pow2[32 - n]>>
  ELSE <<(x[1] \div Pow2[n]) + (x[2] % Pow2[n]) * Pow2[16 - n],
         (x[2] \div Pow2[n]) + (x[1] % Pow2[n]) * Pow2[16 - n]>>

Ch[x \in Word, y \in Word, z \in Word] ==
  WXor[WAnd[x, y], WAnd[WNot[x], z]]

Maj[x \in Word, y \in Word, z \in Word] ==
  WXor[WXor[WAnd[x, y], WAnd[x, z]], WAnd[y, z]]

BigSigma0[x \in Word] == WXor[WXor[Rotr[x, 2], Rotr[x, 13]], Rotr[x, 22]]

BigSigma1[x \in Word] == WXor[WXor[Rotr[x, 6], Rotr[x, 11]], Rotr[x, 25]]

SmallSigma0[x \in Word] == WXor[WXor[Rotr[x, 7], Rotr[x, 18]], Shr[x, 3]]

SmallSigma1[x \in Word] == WXor[WXor[Rotr[x, 17], Rotr[x, 19]], Shr[x, 10]]

SHA256_K ==
  << <<17034, 12184>>, <<28983, 17553>>, <<46528, 64463>>, <<59829, 56229>>,
     <<14678, 49755>>, <<23025, 4593>>, <<37439, 33444>>, <<43804, 24277>>,
     <<55303, 43672>>, <<4739, 23297>>, <<9265, 34238>>, <<21772, 32195>>,
     <<29374, 23924>>, <<32990, 45566>>, <<39900, 1703>>, <<49563, 61812>>,
     <<58523, 27073>>, <<61374, 18310>>, <<4033, 40390>>, <<9228, 41420>>,
     <<11753, 11375>>, <<19060, 33962>>, <<23728, 43484>>, <<30457, 35034>>,
     <<38974, 20818>>, <<43057, 50797>>, <<45059, 10184>>, <<48985, 32711>>,
     <<50912, 3059>>, <<54695, 37191>>, <<1738, 25425>>, <<5161, 10599>>,
     <<10167, 2693>>, <<11803, 8504>>, <<19756, 28156>>, <<21304, 3347>>,
     <<25866, 29524>>, <<30314, 2747>>, <<33218, 51502>>, <<37490, 11397>>,
     <<41663, 59553>>, <<43034, 26187>>, <<49739, 35696>>, <<51052, 20899>>,
     <<53650, 59417>>, <<54937, 1572>>, <<62478, 13701>>, <<4202, 41072>>,
     <<6564, 49430>>, <<7735, 27656>>, <<10056, 30540>>, <<13488, 48309>>,
     <<14620, 3251>>, <<20184, 43594>>, <<23452, 51791>>, <<26670, 28659>>,
     <<29839, 33518>>, <<30885, 25455>>, <<33992, 30740>>, <<36039, 520>>,
     <<37054, 65530>>, <<42064, 27883>>, <<48889, 41975>>, <<50801, 30962>> >>

SHA256_H0 ==
  << <<27145, 58983>>, <<47975, 44677>>, <<15470, 62322>>, <<42319, 62778>>,
     <<20750, 21119>>, <<39685, 26764>>, <<8067, 55723>>, <<23520, 52505>> >>

Zeros[n \in 0..64] == IF n = 0 THEN <<>> ELSE <<0>> \o Zeros[n - 1]

Byte == 0..255

\* the message, the byte 0x80, zero bytes up to 56 mod 64, and the bit
\* length as a 64-bit big-endian integer (the messages here are far
\* shorter than 2^13 bytes, so only its low two bytes can be nonzero)
Sha256Pad[bytes \in Seq(Byte)] ==
  bytes \o <<128>> \o Zeros[(119 - (Len(bytes) % 64)) % 64] \o Zeros[6]
    \o <<((8 * Len(bytes)) \div 256) % 256, (8 * Len(bytes)) % 256>>

\* the 16 big-endian words of the 64-byte block that follows offset o
BlockWords[m \in Seq(Byte), o \in Nat] ==
  [i \in 1..16 |->
     <<m[o + 4 * i - 3] * 256 + m[o + 4 * i - 2],
       m[o + 4 * i - 1] * 256 + m[o + 4 * i]>>]

\* the message schedule W[1..64], grown one word at a time
Schedule[w \in Seq(Word)] ==
  IF Len(w) = 64 THEN w
  ELSE Schedule[Append(w,
         WAdd[WAdd[SmallSigma1[w[Len(w) - 1]], w[Len(w) - 6]],
              WAdd[SmallSigma0[w[Len(w) - 14]], w[Len(w) - 15]]])]

\* T1 and T2 of one round on the working variables v = a..h
RoundT1[v \in Seq(Word), wt \in Word, kt \in Word] ==
  WAdd[WAdd[WAdd[v[8], BigSigma1[v[5]]], WAdd[Ch[v[5], v[6], v[7]], kt]], wt]

RoundT2[v \in Seq(Word)] == WAdd[BigSigma0[v[1]], Maj[v[1], v[2], v[3]]]

RoundShift[v \in Seq(Word), t1 \in Word, t2 \in Word] ==
  <<WAdd[t1, t2], v[1], v[2], v[3], WAdd[v[4], t1], v[5], v[6], v[7]>>

\* one round of the compression function
Round[v \in Seq(Word), wt \in Word, kt \in Word] ==
  RoundShift[v, RoundT1[v, wt, kt], RoundT2[v]]

\* rounds t..64 applied to the working variables v
Rounds[v \in Seq(Word), w \in Seq(Word), t \in 1..65] ==
  IF t = 65 THEN v ELSE Rounds[Round[v, w[t], SHA256_K[t]], w, t + 1]

AddWords[h \in Seq(Word), v \in Seq(Word)] ==
  [i \in 1..8 |-> WAdd[h[i], v[i]]]

Compress[h \in Seq(Word), block \in Seq(Word)] ==
  AddWords[h, Rounds[h, Schedule[block], 1]]

Sha256Blocks[h \in Seq(Word), m \in Seq(Byte), o \in Nat] ==
  IF o >= Len(m) THEN h
  ELSE Sha256Blocks[Compress[h, BlockWords[m, o]], m, o + 64]

HexDigits ==
  <<"0", "1", "2", "3", "4", "5", "6", "7",
    "8", "9", "a", "b", "c", "d", "e", "f">>

Hex16[n \in Half] ==
  HexDigits[(n \div 4096) + 1] \o HexDigits[((n \div 256) % 16) + 1]
    \o HexDigits[((n \div 16) % 16) + 1] \o HexDigits[(n % 16) + 1]

HexWords[ws \in Seq(Word)] ==
  IF ws = <<>> THEN ""
  ELSE Hex16[Head(ws)[1]] \o Hex16[Head(ws)[2]] \o HexWords[Tail(ws)]

\* hashlib.sha256(bytes).hexdigest(): 64 lower-case hexadecimal characters
sha256_hexdigest(bytes) ==
  HexWords[Sha256Blocks[SHA256_H0, Sha256Pad[bytes], 0]]

(***************************************************************************)
(* Bounds of the model and the inputs requests are drawn from.             *)
(***************************************************************************)
\* requests served in one behaviour
MaxRequests == 2

\* chunks the splitter yields for one document
MaxChunks == 2

\* the files a client uploads, as bytes: "%PDF-1.4" and "%PDF-1.7"
Contents ==
  {<<37, 80, 68, 70, 45, 49, 46, 52>>, <<37, 80, 68, 70, 45, 49, 46, 55>>}

ContentTypes == {"application/pdf", "text/plain"}

\* the Authorization header of a request: absent (the client of src/app.py
\* sends none), or "Bearer <token>" with a token create_access_token issued
\* or with any other string
NoHeader == <<>>

IssuedJwt == "issued.jwt"

BearerTokens == {IssuedJwt, "not-a-jwt"}

AuthHeaders == {NoHeader} \cup {<<"Bearer", t>> : t \in BearerTokens}

Queries == {"", "What is the total token supply?"}

GeneratedTexts == {"The total token supply is 1,000,000 units."}

\* as_retriever() with no arguments retrieves the 4 most similar vectors
TopK == 4

(***************************************************************************)
(* Helpers of the handlers.                                                *)
(***************************************************************************)
\* raise HTTPException(status_code=code, detail=detail), as the response
HTTPException(code, detail) == [status |-> code, body |-> [detail |-> detail]]

\* dict.get(key, default)
DictGet(d, key, default) == IF key \in DOMAIN d THEN d[key] ELSE default

\* the digests of the files a request can carry, computed once
Sha256Table == [c \in Contents |-> sha256_hexdigest(c)]

\* file_hash = hashlib.sha256(content).hexdigest()
FileHash(content) == Sha256Table[content]

\* the digest of no bytes, which a second file.read() would return
EmptyDigest == sha256_hexdigest(<<>>)

\* a session id computed from a buffer that was never filled
SessionIdOfUnreadFile(content) == "doc_" \o EmptyDigest

\* session_id = f"doc_{file_hash}"
SessionIdOf(content) == "doc_" \o FileHash(content)

\* the session ids a client can send: one per document, and the empty string
SessionIds == {""} \cup {SessionIdOf(c) : c \in Contents}

\* get_current_user: jwt.decode(token, SECRET_KEY) and its "sub" claim; any
\* string that is not a token signed with SECRET_KEY raises 401
get_current_user(token) ==
  IF token = IssuedJwt
  THEN [ok |-> TRUE, user_email |-> "user@example.com"]
  ELSE [ok |-> FALSE, user_email |-> ""]

\* a dependency that verifies the token (Depends(get_current_user))
DependsGetCurrentUser(req) ==
  /\ req.auth # NoHeader
  /\ req.auth[1] = "Bearer"
  /\ get_current_user(req.auth[2]).ok

\* token: str = Depends(oauth2_scheme): OAuth2PasswordBearer only requires
\* an Authorization header with the Bearer scheme, else raises 401
oauth2_scheme(req) ==
  /\ req.auth # NoHeader
  /\ req.auth[1] = "Bearer"

NotAuthenticated == HTTPException(401, "Not authenticated")

UploadRequests ==
  [kind : {"upload"}, auth : AuthHeaders, content_type : ContentTypes,
   content : Contents]

AskRequests ==
  [kind : {"ask"}, auth : AuthHeaders, session_id : SessionIds,
   query : Queries]

(***************************************************************************)
(* State.                                                                  *)
(***************************************************************************)
VARIABLES
  store,    \* the Pinecone index: the set of <<namespace, chunk>> upserted
  fs,       \* the temporary files on disk: the set of <<path, data>>
  pending,  \* upload_whitepaper calls suspended at "await file.read()"
  last,     \* the request answered last, with its response and what it did
  issued,   \* <<content, auth, session_id>> of each 200 upload, in order
  nreq      \* requests received so far

vars == <<store, fs, pending, last, issued, nreq>>

NoRequest ==
  [req |-> [kind |-> "none"], resp |-> [status |-> 0, body |-> [detail |-> ""]],
   calls |-> <<>>, fault |-> "none", split |-> 0, namespace |-> "",
   retrieved |-> {}]

(***************************************************************************)
(* upload_whitepaper (src/main.py:131-161).  The handler is a coroutine on *)
(* the server's event loop: it runs without interruption up to             *)
(* "await file.read()", where other requests may be served, and without    *)
(* interruption from there to its response (every later call is blocking). *)
(***************************************************************************)
\* a handler without the media type check
ValidContentTypeUnchecked(req) == TRUE

\* if file.content_type != "application/pdf": raise HTTPException(400)
ValidContentType(req) == req.content_type = "application/pdf"

\* tempfile.NamedTemporaryFile(delete=False, suffix=".pdf"): a new, empty
\* file under a name no other file has
TmpName(id) == id

CreateTemp(files, path) == files \cup {<<path, <<>>>>}

\* tmp_file.write(content)
WriteTemp(files, path, data) ==
  {f \in files : f[1] # path} \cup {<<path, data>>}

ReadTemp(files, path) == (CHOOSE f \in files : f[1] = path)[2]

\* the stages of the pipeline, in the order the handler calls them
UploadStages ==
  <<"NamedTemporaryFile", "file.read", "tmp_file.write", "sha256",
    "PyPDFLoader.load", "split_documents", "from_documents">>

\* the stage in which each failure of an external call is raised
UploadFaultStage ==
  [read |-> 2, write |-> 3, load |-> 5, embed |-> 7, upsert |-> 7, none |-> 7]

UploadCalls(fault) == SubSeq(UploadStages, 1, UploadFaultStage[fault])

\* what the outside world does to one upload: the first call that raises
\* (or none), the number n of chunks the loader and splitter yield, and the
\* number k of chunks in the index when from_documents returns or raises
UploadOracles ==
  {o \in [fault : {"none", "read", "write", "load", "embed", "upsert"},
          n : 0..MaxChunks, k : 0..MaxChunks] :
     /\ o.fault \in {"read", "write", "load"} => o.n = 0 /\ o.k = 0
     /\ o.fault = "embed" => o.n >= 1 /\ o.k = 0
     /\ o.fault = "upsert" => o.n >= 1 /\ o.k < o.n
     /\ o.fault = "none" => o.k = o.n}

\* tmp_file_path when the finally block runs: None (0) until line 143, which
\* follows file.read() and tmp_file.write() inside the with block
TmpFilePath(job, fault) ==
  IF fault \in {"read", "write"} THEN 0 ELSE job.tmp

\* finally: if tmp_file_path and os.path.exists(tmp_file_path): os.remove(..)
Cleanup(files, tmp_file_path) ==
  IF tmp_file_path # 0 /\ \E f \in files : f[1] = tmp_file_path
  THEN {f \in files : f[1] # tmp_file_path}
  ELSE files

\* the namespace from_documents upserts into: namespace=session_id
UploadNamespace(session_id) == session_id

\* split_docs: the n chunks of the text the loader extracts from the file
SplitDocs(data, n) == {<<data, i>> : i \in 1..n}

\* the vectors in the index after from_documents upserted k chunks
Upsert(index, namespace, data, k) ==
  index \cup {<<namespace, c>> : c \in SplitDocs(data, k)}

UploadSuccess(session_id) ==
  [status |-> 200, body |-> [status |-> "success", session_id |-> session_id]]

\* an except clause that swallows the exception
UploadResponseSwallow(fault, session_id) == UploadSuccess(session_id)

\* return {...} at the end of the try block; except Exception as e:
\* raise HTTPException(status_code=500, detail=str(e))
UploadResponse(fault, session_id) ==
  IF fault = "none" THEN UploadSuccess(session_id)
  ELSE HTTPException(500, fault)

\* the handler up to "await file.read()"
upload_begin(req, id, files) ==
  IF ~oauth2_scheme(req)
  THEN [suspended |-> FALSE, resp |-> NotAuthenticated, fs |-> files]
  ELSE IF ~ValidContentType(req)
  THEN [suspended |-> FALSE, resp |-> HTTPException(400, "Invalid file type."),
        fs |-> files]
  ELSE [suspended |-> TRUE, resp |-> [status |-> 0, body |-> [detail |-> ""]],
        fs |-> CreateTemp(files, TmpName(id))]

\* the handler from the completion of file.read() to its response
upload_resume(job, o, index, files) ==
  LET content == job.req.content
      written == IF o.fault \in {"read", "write"} THEN files
                 ELSE WriteTemp(files, job.tmp, content)
      tmp_file_path == TmpFilePath(job, o.fault)
      session_id == SessionIdOf(content)
      loaded == o.fault \notin {"read", "write", "load"}
      data == IF loaded THEN ReadTemp(written, tmp_file_path) ELSE <<>>
      namespace == IF loaded THEN UploadNamespace(session_id) ELSE ""
  IN  [resp |-> UploadResponse(o.fault, session_id),
       calls |-> UploadCalls(o.fault),
       split |-> o.n,
       namespace |-> namespace,
       store |-> IF loaded THEN Upsert(index, namespace, data, o.k) ELSE index,
       fs |-> Cleanup(written, tmp_file_path)]

(***************************************************************************)
(* ask_question (src/main.py:164-184).  The handler has no await: it runs  *)
(* from the request to the response without interruption.                  *)
(***************************************************************************)
\* a handler that queries the namespace of the document ingested last (a
\* module-level session id) instead of the one the request names
AskNamespaceGlobal(req) ==
  IF issued # <<>> THEN issued[Len(issued)][3] ELSE req.session_id

\* from_existing_index(..., namespace=session_id)
AskNamespace(req) == req.session_id

\* the chunks stored under a namespace
Matches(index, namespace) == {p[2] : p \in {q \in index : q[1] = namespace}}

Min(a, b) == IF a < b THEN a ELSE b

\* the results a similarity query scoped to the namespace can return: the
\* TopK most similar chunks of the namespace, whichever they are
Retrieve(index, namespace) ==
  LET m == Matches(index, namespace)
  IN  {r \in SUBSET m : Cardinality(r) = Min(TopK, Cardinality(m))}

\* RetrievalQA (chain_type "stuff") invoked with the query: the retriever
\* embeds the query and queries the index, then the chat model is called
\* with the retrieved chunks as context
AskStages == <<"from_existing_index", "embed_query", "index.query", "llm">>

AskFaultStage ==
  [index |-> 1, embed |-> 2, query |-> 3, generate |-> 4, none |-> 4]

AskCalls(fault) == SubSeq(AskStages, 1, AskFaultStage[fault])

\* what the outside world does to one question: the first call that raises
\* (or none), the chunks the query returns and the text the model writes
AskOracles(index, req) ==
  [fault : {"none", "index", "embed", "query", "generate"},
   top : Retrieve(index, AskNamespace(req)), text : GeneratedTexts]

\* the oracle of a request that calls nothing
NoOracle == [fault |-> "none", top |-> {}, text |-> ""]

AskSuccess(answer) ==
  [status |-> 200, body |-> [status |-> "success", answer |-> answer]]

\* an except clause that swallows the exception
AskResponseSwallow(fault, result) ==
  AskSuccess(DictGet(<<>>, "result", "No answer found."))

\* return {...} at the end of the try block; except Exception as e:
\* raise HTTPException(status_code=500, detail=str(e))
AskResponse(fault, result) ==
  IF fault = "none"
  THEN AskSuccess(DictGet(result, "result", "No answer found."))
  ELSE HTTPException(500, fault)

ask_question(req, o, index) ==
  IF ~oauth2_scheme(req)
  THEN [resp |-> NotAuthenticated, calls |-> <<>>, retrieved |-> {},
        namespace |-> ""]
  ELSE LET result == [query |-> req.query, result |-> o.text]
       IN  [resp |-> AskResponse(o.fault, result),
            calls |-> AskCalls(o.fault),
            retrieved |-> IF o.fault \in {"none", "generate"} THEN o.top ELSE {},
            namespace |-> AskNamespace(req)]

(***************************************************************************)
(* Actions: one per uninterrupted run of a handler.                        *)
(***************************************************************************)
\* the index outlives the server process: when the server starts it holds
\* the chunks of the documents ingested before, each under its session id
IndexAtStart ==
  {UNION {Upsert({}, UploadNamespace(SessionIdOf(c)), c, MaxChunks) : c \in d}
     : d \in SUBSET Contents}

Init ==
  /\ store \in IndexAtStart
  /\ fs = {}
  /\ pending = {}
  /\ last = NoRequest
  /\ issued = <<>>
  /\ nreq = 0

\* a request to POST /upload-whitepaper/ is answered 401 or 400
UploadReject(req) ==
  LET r == upload_begin(req, nreq + 1, fs)
  IN  /\ nreq < MaxRequests
      /\ last = NoRequest
      /\ ~r.suspended
      /\ nreq' = nreq + 1
      /\ last' = [req |-> req, resp |-> r.resp,
                  calls |-> <<>>, fault |-> "none", split |-> 0,
                  namespace |-> "", retrieved |-> {}]
      /\ fs' = r.fs
      /\ UNCHANGED <<store, pending, issued>>

\* a request to POST /upload-whitepaper/ stages a temporary file and waits
\* for the bytes of the upload
UploadStage(req) ==
  LET r == upload_begin(req, nreq + 1, fs)
  IN  /\ nreq < MaxRequests
      /\ last = NoRequest
      /\ r.suspended
      /\ nreq' = nreq + 1
      /\ fs' = r.fs
      /\ pending' = pending \cup {[req |-> req, tmp |-> TmpName(nreq + 1)]}
      /\ UNCHANGED <<store, last, issued>>

\* a suspended upload resumes and runs to its response
UploadResume(job, o) ==
  LET r == upload_resume(job, o, store, fs)
  IN  /\ job \in pending
      /\ last = NoRequest
      /\ pending' = pending \ {job}
      /\ store' = r.store
      /\ fs' = r.fs
      /\ last' = [req |-> job.req, resp |-> r.resp,
                  calls |-> r.calls, fault |-> o.fault, split |-> r.split,
                  namespace |-> r.namespace, retrieved |-> {}]
      /\ issued' = IF r.resp.status = 200
                   THEN Append(issued, <<job.req.content, job.req.auth,
                                         r.resp.body.session_id>>)
                   ELSE issued
      /\ UNCHANGED nreq

\* a request to POST /ask-question/ is answered 401
AskReject(req) ==
  LET r == ask_question(req, NoOracle, store)
  IN  /\ nreq < MaxRequests
      /\ last = NoRequest
      /\ ~oauth2_scheme(req)
      /\ nreq' = nreq + 1
      /\ last' = [req |-> req, resp |-> r.resp, calls |-> r.calls,
                  fault |-> "none", split |-> 0, namespace |-> r.namespace,
                  retrieved |-> r.retrieved]
      /\ UNCHANGED <<store, fs, pending, issued>>

\* a request to POST /ask-question/ runs to its response
AskQuestion(req, o) ==
  LET r == ask_question(req, o, store)
  IN  /\ nreq < MaxRequests
      /\ last = NoRequest
      /\ oauth2_scheme(req)
      /\ nreq' = nreq + 1
      /\ last' = [req |-> req, resp |-> r.resp, calls |-> r.calls,
                  fault |-> o.fault, split |-> 0, namespace |-> r.namespace,
                  retrieved |-> r.retrieved]
      /\ UNCHANGED <<store, fs, pending, issued>>

\* the response is written to the client; the event loop then runs the
\* next handler
Respond ==
  /\ last # NoRequest
  /\ last' = NoRequest
  /\ UNCHANGED <<store, fs, pending, issued, nreq>>

Next ==
  \/ \E req \in UploadRequests : UploadReject(req)
  \/ \E req \in UploadRequests : UploadStage(req)
  \/ \E job \in pending, o \in UploadOracles : UploadResume(job, o)
  \/ \E req \in AskRequests : AskReject(req)
  \/ \E req \in AskRequests : \E o \in AskOracles(store, req) : AskQuestion(req, o)
  \/ Respond

Spec == Init /\ [][Next]_vars

(***************************************************************************)
(* Properties.                                                             *)
(***************************************************************************)
Answered == last # NoRequest

HasBearer(req) == req.auth # NoHeader

IsPrefix(s, t) == Len(s) <= Len(t) /\ s = SubSeq(t, 1, Len(s))

\* C1: every temporary file on disk belongs to an upload that has not yet
\* returned; when no upload is in flight no staged file is left.
C1_TempFilesReleased == \A f \in fs : \E job \in pending : job.tmp = f[1]

\* C2: a question with an empty session_id or an empty query is rejected
\* with a client error, and no external capability is contacted for it.
C2_EmptyInputRejected ==
  (/\ Answered
   /\ last.req.kind = "ask"
   /\ HasBearer(last.req)
   /\ (last.req.session_id = "" \/ last.req.query = ""))
  => (last.resp.status \in 400..499 /\ last.calls = <<>>)

\* C3: an upload whose extraction and splitting yield zero chunks does not
\* end in a 200 response.
C3_EmptyDocumentFails ==
  (/\ Answered
   /\ last.req.kind = "upload"
   /\ Len(last.calls) >= 6
   /\ last.split = 0)
  => last.resp.status # 200

\* C4: when the query of the partition returns no chunk, the chat model is
\* not called and the answer is the "no information found" sentinel.
C4_EmptyRetrievalSentinel ==
  (/\ Answered
   /\ last.req.kind = "ask"
   /\ Len(last.calls) >= 3
   /\ last.fault # "query"
   /\ last.retrieved = {})
  => (/\ Len(last.calls) = 3
      /\ last.resp.status = 200
      /\ last.resp.body.answer = "no information found")

\* C5: an upload whose media type is not application/pdf is answered 400
\* before any call of the pipeline, and leaves the index, the temporary
\* files and the uploads in flight as they were.
C5_NonPdfRejectedFirst ==
  [][(/\ last' # last
      /\ last' # NoRequest
      /\ last'.req.kind = "upload"
      /\ HasBearer(last'.req)
      /\ last'.req.content_type # "application/pdf")
     => (/\ last'.resp = [status |-> 400,
                          body |-> [detail |-> "Invalid file type."]]
         /\ last'.calls = <<>>
         /\ store' = store
         /\ fs' = fs
         /\ pending' = pending)]_vars

C5_Witness ==
  /\ Answered
  /\ last.req.kind = "upload"
  /\ HasBearer(last.req)
  /\ last.req.content_type = "text/plain"
  /\ last.resp.status = 400
  /\ store # {}

\* C6: an upload is answered 200 with a session_id only when every stage
\* up to the upsert ran without raising and every chunk of the document is
\* in the index under that session_id; when a stage raised, also after an
\* upsert of only some chunks, the answer is 500 and carries no session_id.
C6_SuccessOnlyAfterFullPipeline ==
  (/\ Answered
   /\ last.req.kind = "upload"
   /\ HasBearer(last.req)
   /\ last.req.content_type = "application/pdf")
  => (/\ last.resp.status \in {200, 500}
      /\ last.resp.status = 200 =>
           /\ last.fault = "none"
           /\ last.calls = <<"NamedTemporaryFile", "file.read",
                             "tmp_file.write", "sha256", "PyPDFLoader.load",
                             "split_documents", "from_documents">>
           /\ \A i \in 1..last.split :
                <<last.resp.body.session_id, <<last.req.content, i>>>> \in store
      /\ last.fault # "none" =>
           /\ last.resp.status = 500
           /\ "session_id" \notin DOMAIN last.resp.body)

C6_Witness ==
  /\ Answered
  /\ last.req.kind = "upload"
  /\ last.fault = "upsert"
  /\ last.split = 2
  /\ last.resp.status = 500
  /\ <<last.namespace, <<last.req.content, 1>>>> \in store
  /\ <<last.namespace, <<last.req.content, 2>>>> \notin store

\* C7: the chunks a question retrieves for session_id P are chunks stored
\* under namespace P, extracted from the document whose session id is P;
\* a chunk stored only under another namespace is never retrieved.
C7_PartitionIsolation ==
  (Answered /\ last.req.kind = "ask")
  => \A c \in last.retrieved :
       /\ <<last.req.session_id, c>> \in store
       /\ SessionIdOf(c[1]) = last.req.session_id

C7_Witness ==
  /\ Answered
  /\ last.req.kind = "ask"
  /\ last.resp.status = 200
  /\ last.retrieved # {}
  /\ \E p \in store : p[1] # last.req.session_id
  /\ issued # <<>>

\* C8: two 200 uploads carry the same session_id exactly when they carry
\* the same bytes, whoever sent them and whatever ran in between, and the
\* session_id of a document is the namespace of no other document's chunks.
C8_SessionIdFromBytes ==
  /\ \A i, j \in 1..Len(issued) :
       (issued[i][1] = issued[j][1]) <=> (issued[i][3] = issued[j][3])
  /\ \A i \in 1..Len(issued) : \A p \in store :
       (p[2][1] = issued[i][1]) <=> (p[1] = issued[i][3])

C8_Witness ==
  /\ Len(issued) = 2
  /\ issued[1][1] = issued[2][1]
  /\ issued[1][2] # issued[2][2]
  /\ issued[1][3] = issued[2][3]
  /\ \E p \in store : p[2][1] # issued[1][1]

\* C9: a question calls the index lookup, the query embedding, the index
\* query and the chat model in this order; it is answered 200 with the
\* generated text only when all four ran without raising, and 500 when
\* one of them raised.
C9_AskStateMachine ==
  (/\ Answered
   /\ last.req.kind = "ask"
   /\ HasBearer(last.req))
  => (/\ IsPrefix(last.calls, <<"from_existing_index", "embed_query",
                                "index.query", "llm">>)
      /\ last.resp.status \in {200, 500}
      /\ last.resp.status = 200 =>
           /\ last.fault = "none"
           /\ Len(last.calls) = 4
           /\ last.resp.body.answer \in GeneratedTexts
      /\ last.fault # "none" =>
           /\ last.resp.status = 500
           /\ "answer" \notin DOMAIN last.resp.body)

C9_Witness ==
  /\ Answered
  /\ last.req.kind = "ask"
  /\ last.fault = "generate"
  /\ last.resp.status = 500
  /\ Len(last.calls) = 4
  /\ last.retrieved # {}

WithToken(req, t) == [req EXCEPT !.auth = <<"Bearer", t>>]

====
